---- MODULE Spec2Model ----
(***************************************************************************)
(* Model of agente.py: the lead store (tables leads, mensagens and         *)
(* conversoes of leads.db), LeadCollector.save_leads,                      *)
(* MessageSender.send_messages, ConversionMonitor.check_conversions, the   *)
(* conversion rate of ReportGenerator, the resources the components hold   *)
(* and the daily schedule that AutonomousSalesAgent.run drives.            *)
(*                                                                         *)
(* Spec is the program.  SpecUnit is the program with _record_conversion   *)
(* called on its own in place of the platform queries.  SpecCalls calls    *)
(* the methods of MessageSender that choose the product and the channel,   *)
(* format a phone and send by Telegram, one call at a time.  SpecRun is    *)
(* the loop of AutonomousSalesAgent.run with a clock: when each job         *)
(* starts and ends, the job bodies left out.  SpecCycles is send_messages   *)
(* invoked again and again on a table of leads, sent_today reset before     *)
(* each invocation and every transport accepting, under weak fairness.      *)
(*                                                                         *)
(* Text is a sequence of one-character strings, so that lower(), split()   *)
(* and the substring tests of the source are computed, not assumed.        *)
(* E-mail addresses and phone numbers are opaque strings; "" is the empty  *)
(* string and NULL stands for Python's None / SQL NULL.                    *)
(***************************************************************************)
EXTENDS Integers, Sequences, FiniteSets, TLC

VARIABLES
    leads,       \* table leads; the row id is the index (AUTOINCREMENT, no DELETE)
    mensagens,   \* table mensagens, in insertion order
    conversoes,  \* table conversoes, in insertion order
    sent_today,  \* MessageSender.sent_today
    vendas,      \* the sale events each affiliate platform holds for the query window
    dia,         \* calendar day of the next scheduled job
    slot,        \* index in Agenda of the next scheduled job
    running,     \* the process is inside AutonomousSalesAgent.run
    all_leads,   \* collect_leads: the list handed to save_leads by the job that
                 \* has just run, <<>> once another step is taken
    abertos,     \* the resources acquired by the constructors and not released
    chamada,     \* the last direct call of a method: its name, argument, result
    agendador    \* the clock and the state of the schedule module inside run()

vars == <<leads, mensagens, conversoes, sent_today, vendas, dia, slot, running,
          all_leads, abertos, chamada, agendador>>

\* ---------------------------------------------------------------- bounds
\* CONFIG['max_messages_per_day'] is 100 in the source; the model scales it
\* down so that the cap is reached with a handful of leads.
max_messages_per_day == 2
\* days the schedule is followed for
MaxDia == 2
\* rows of table leads
MaxLeads == 2
\* candidates one collect_leads run hands to save_leads
MaxBatch == 2
\* sale events the platforms hold
MaxVendas == 2
\* direct calls of _record_conversion
MaxConv == 2
\* nines after the prefix of a phone number
MaxNove == 11
\* the longest a job runs, in hours
MaxDuracao == 3
\* leads in the table when the dispatch cycles begin
MaxFila == 4

\* --------------------------------------------------------------- text
NULL == "NULL"

UpperCase == <<"A","B","C","D","E","F","G","H","I","J","K","L","M",
               "N","O","P","Q","R","S","T","U","V","W","X","Y","Z","Ó">>
LowerCase == <<"a","b","c","d","e","f","g","h","i","j","k","l","m",
               "n","o","p","q","r","s","t","u","v","w","x","y","z","ó">>

\* str.lower(), one character
LowerChar(c) ==
    IF \E i \in DOMAIN UpperCase : UpperCase[i] = c
    THEN LowerCase[CHOOSE i \in DOMAIN UpperCase : UpperCase[i] = c]
    ELSE c

\* str.lower()
Lower(s) == [i \in 1..Len(s) |-> LowerChar(s[i])]

\* the Python test  kw in s
Contains(s, kw) ==
    \E i \in 1..(Len(s) - Len(kw) + 1) : SubSeq(s, i, i + Len(kw) - 1) = kw

\* Python truthiness of an optional string (e-mail, phone)
Truthy(x) == x # NULL /\ x # ""

\* str.split()[0]: the first whitespace-separated word; <<>> stands for the
\* IndexError of an all-whitespace string
RECURSIVE FirstWord(_)
FirstWord(s) ==
    IF s = <<>> THEN <<>>
    ELSE IF Head(s) = " " THEN FirstWord(Tail(s))
    ELSE LET n == IF \E i \in 1..Len(s) : s[i] = " "
                  THEN (CHOOSE i \in 1..Len(s) :
                           s[i] = " " /\ \A j \in 1..(i - 1) : s[j] # " ") - 1
                  ELSE Len(s)
         IN  SubSeq(s, 1, n)

\* str.split(',')[0]
FirstField(s) ==
    IF \E i \in 1..Len(s) : s[i] = ","
    THEN SubSeq(s, 1, (CHOOSE i \in 1..Len(s) :
                          s[i] = "," /\ \A j \in 1..(i - 1) : s[j] # ",") - 1)
    ELSE s

\* ------------------------------------------------------------- schedule
\* _setup_scheduler: the jobs in the order of their hour of the day
Agenda == <<"collect_leads", "send_messages", "send_messages",
            "check_conversions", "generate_report">>
Hora == <<9, 11, 14, 17, 18>>

\* datetime.now() while the job of (d, s) runs, in hours
Stamp(d, s) == d * 24 + Hora[s]
\* date(...) of a stored timestamp
DateOf(t) == t \div 24
\* a timestamp column that is still NULL
NoTime == 0

\* ---------------------------------------------------------------- leads
kwMarketing    == <<"m","a","r","k","e","t","i","n","g">>
kwVendas       == <<"v","e","n","d","a","s">>
kwInvestimento == <<"i","n","v","e","s","t","i","m","e","n","t","o">>
kwDinheiro     == <<"d","i","n","h","e","i","r","o">>
kwEmpreendedor == <<"e","m","p","r","e","e","n","d","e","d","o","r">>
kwNegocio      == <<"n","e","g","ó","c","i","o">>

\* what _detect_interests answered for the candidates of the model
tagVendas   == <<"V","e","n","d","a","s",","," ","w","e","b">>
tagDinheiro == <<"d","i","n","h","e","i","r","o">>
tagNegocio  == kwNegocio
tagGeral    == <<"g","e","r","a","l">>

nomeAna    == <<"A","n","a"," ","L","u">>
nomeBo     == <<"B","o">>
nomeBranco == <<" ">>

Cand(n, e, t, i) == [nome |-> n, email |-> e, telefone |-> t, interesses |-> i]

\* the lead dicts collect_from_website and collect_from_api can return
Candidatos == {
    Cand(nomeAna,    "a", "",  tagVendas),
    Cand(nomeBo,     "",  "p", tagDinheiro),
    Cand(nomeBranco, "a", "p", tagNegocio),
    Cand(nomeBo,     "",  "q", tagGeral),
    Cand(<<>>,       "",  "",  tagGeral) }

\* tentativas < 3 in the query of _get_qualified_leads
AttemptCeiling == 3

\* a row of table leads as save_leads inserts it (status DEFAULT 'novo',
\* tentativas DEFAULT 0, ultimo_contato NULL)
NewLead(c, t) ==
    [nome |-> c.nome, email |-> c.email, telefone |-> c.telefone,
     interesses |-> c.interesses, data_coleta |-> t,
     status |-> "novo", ultimo_contato |-> NoTime, tentativas |-> 0]

\* mutant: AND in place of OR in the WHERE clause
LeadExistsBoth(tbl, c) ==
    \E i \in 1..Len(tbl) :
        /\ c.email # NULL /\ tbl[i].email = c.email
        /\ c.telefone # NULL /\ tbl[i].telefone = c.telefone

\* SELECT id FROM leads WHERE email = ? OR telefone = ?
\* (a comparison with NULL is never true)
LeadExists(tbl, c) ==
    \E i \in 1..Len(tbl) :
        \/ c.email # NULL /\ tbl[i].email = c.email
        \/ c.telefone # NULL /\ tbl[i].telefone = c.telefone

\* LeadCollector.save_leads: the table after the loop over the batch
RECURSIVE save_leads(_, _, _)
save_leads(tbl, batch, t) ==
    IF batch = <<>> THEN tbl
    ELSE IF LeadExists(tbl, Head(batch))
         THEN save_leads(tbl, Tail(batch), t)
         ELSE save_leads(Append(tbl, NewLead(Head(batch), t)), Tail(batch), t)

\* ------------------------------------------------------------- dispatch
Produtos == {"produto1", "produto2"}
NoProduct == "None"
\* the keys of CONFIG['message_templates']
TemplateKeys == {"email", "whatsapp"}
\* how a transport call ends: accepted, rejected, or an exception
Respostas == {"ok", "reject", "raise"}
\* the answers the transports would give while one lead is processed
\* (telegram_bot.send_message returns or raises: its result is not tested)
Transportes == [mailgun : Respostas, whatsapp : Respostas, sms : Respostas,
                bot : {"ok", "raise"}]

\* mutant: tentativas <= 3 in place of tentativas < 3
IsQualifiedUpTo(l) ==
    \/ l.status = "novo"
    \/ l.status = "contatado" /\ l.tentativas <= AttemptCeiling

\* mutant: the WHERE clause tests the attempts only
IsQualifiedAnyStatus(l) == l.tentativas < AttemptCeiling

\* WHERE status = 'novo' OR (status = 'contatado' AND tentativas < 3)
IsQualified(l) ==
    \/ l.status = "novo"
    \/ l.status = "contatado" /\ l.tentativas < AttemptCeiling

\* the ids among 1..n that pass the filter, ascending
RECURSIVE QualifiedIds(_, _)
QualifiedIds(tbl, n) ==
    IF n = 0 THEN <<>>
    ELSE IF IsQualified(tbl[n])
         THEN Append(QualifiedIds(tbl, n - 1), n)
         ELSE QualifiedIds(tbl, n - 1)

\* MessageSender._get_qualified_leads: ORDER BY data_coleta ASC LIMIT ?
\* data_coleta never decreases with the id, so the order is the id order;
\* a negative LIMIT means no limit in SQLite
get_qualified_leads(tbl, sent) ==
    LET ids == QualifiedIds(tbl, Len(tbl))
        lim == max_messages_per_day - sent
    IN  IF lim < 0 \/ lim >= Len(ids) THEN ids ELSE SubSeq(ids, 1, lim)

\* mutant: the investment keywords are tested before the marketing ones
select_product_invest_first(l, rnd) ==
    LET interesses == Lower(l.interesses)
    IN  IF Contains(interesses, kwInvestimento) \/ Contains(interesses, kwDinheiro)
        THEN "produto2"
        ELSE IF Contains(interesses, kwMarketing) \/ Contains(interesses, kwVendas)
        THEN "produto1"
        ELSE IF Contains(interesses, kwEmpreendedor) \/ Contains(interesses, kwNegocio)
        THEN rnd
        ELSE NoProduct

\* MessageSender._select_product_for_lead; rnd is what random.choice yields
\* (<<>> stands for '' and for None, which line 355 treats alike)
select_product_for_lead(l, rnd) ==
    LET interesses == Lower(l.interesses)
    IN  IF Contains(interesses, kwMarketing) \/ Contains(interesses, kwVendas)
        THEN "produto1"
        ELSE IF Contains(interesses, kwInvestimento) \/ Contains(interesses, kwDinheiro)
        THEN "produto2"
        ELSE IF Contains(interesses, kwEmpreendedor) \/ Contains(interesses, kwNegocio)
        THEN rnd
        ELSE NoProduct

\* mutant: the e-mail is tested before the phone
select_channel_email_first(l, rnd) ==
    IF Truthy(l.email) THEN "email"
    ELSE IF Truthy(l.telefone) THEN rnd
    ELSE "email"

\* MessageSender._select_channel_for_lead; rnd is what random.choice yields
select_channel_for_lead(l, rnd) ==
    IF Truthy(l.telefone) THEN rnd
    ELSE IF Truthy(l.email) THEN "email"
    ELSE "email"

\* MessageGenerator.generate_persuasive_message: the rendered text as the
\* values put into the template, <<>> for the empty string.  A channel
\* without a template renders ''; an all-whitespace name raises IndexError
\* in split()[0], which the except clause turns into ''.
generate_persuasive_message(l, produto, canal) ==
    IF canal \notin TemplateKeys THEN <<>>
    ELSE IF l.nome # <<>> /\ FirstWord(l.nome) = <<>> THEN <<>>
    ELSE <<canal,
           IF l.nome # <<>> THEN FirstWord(l.nome) ELSE <<"cliente">>,
           produto,
           IF l.interesses # <<>> THEN FirstField(l.interesses)
           ELSE <<"este assunto">> >>

\* str.isdigit, one character
IsDigit(c) == c \in {"0", "1", "2", "3", "4", "5", "6", "7", "8", "9"}

\* str.startswith('55')
StartsWith55(s) == Len(s) >= 2 /\ s[1] = "5" /\ s[2] = "5"

\* mutant: the country code is prepended to every 11-digit number
formatar_telefone_sem_teste(telefone) ==
    LET numeros == SelectSeq(telefone, IsDigit)
    IN  <<"+">> \o (IF Len(numeros) = 11 THEN <<"5", "5">> \o numeros ELSE numeros)

\* MessageSender._formatar_telefone_telegram, for a str argument (nothing
\* in the try block raises for a str, so None is not returned)
formatar_telefone_telegram(telefone) ==
    LET numeros == SelectSeq(telefone, IsDigit)
    IN  <<"+">> \o (IF ~StartsWith55(numeros) /\ Len(numeros) = 11
                    THEN <<"5", "5">> \o numeros
                    ELSE numeros)

\* the columns of table leads in init_database
LeadsColumns == {"id", "nome", "email", "telefone", "origem", "interesses",
                 "data_coleta", "status", "ultimo_contato", "tentativas"}

\* no chat id (None, NULL, 0)
NoChat == 0

\* MessageSender._get_telegram_chat_id: q is what the lookup meets, the
\* columns of table leads in the leads.db on disk (CREATE TABLE IF NOT
\* EXISTS keeps a table that is already there), the id stored for the phone
\* and the chat id of the contact with that phone among get_updates()
\* (NoChat when there is none, or when get_updates raises).  A missing
\* column makes the SELECT raise, and the except clause returns None.
get_telegram_chat_id(q) ==
    IF "telegram_chat_id" \notin q.colunas THEN NoChat
    ELSE IF q.stored # NoChat THEN q.stored
    ELSE q.updates

\* what the lookup meets in a leads.db made by init_database
ConsultaDoPrograma == [colunas |-> LeadsColumns, stored |-> NoChat, updates |-> NoChat]

\* mutant: the invitation is sent by WhatsApp only
iniciar_conversa_sem_sms(r) ==
    [ok |-> r.whatsapp = "ok", calls |-> <<"whatsapp">>]

\* MessageSender._iniciar_conversa_telegram: the result and the transports
\* called, in order (_send_whatsapp and _send_sms return False when the
\* Twilio call raises)
iniciar_conversa_telegram(r) ==
    IF r.whatsapp = "ok" THEN [ok |-> TRUE, calls |-> <<"whatsapp">>]
    ELSE [ok |-> r.sms = "ok", calls |-> <<"whatsapp", "sms">>]

\* _get_telegram_chat_id, lines 502-503: get_updates() is called when the
\* SELECT came back without an id
get_updates_called(q) ==
    "telegram_chat_id" \in q.colunas /\ q.stored = NoChat

\* _get_telegram_chat_id, lines 509-513: the id that the row with
\* telefone = telefone_formatado holds after the lookup.  The rows of leads
\* hold the phone as collected, and send_message passes lead['telefone'],
\* so the UPDATE ... WHERE telefone = ? meets the row of the lead only when
\* the collected phone is already in the formatted form.
chat_id_salvo(telefone, q) ==
    IF "telegram_chat_id" \notin q.colunas THEN NoChat
    ELSE IF q.stored # NoChat THEN q.stored
    ELSE IF q.updates # NoChat /\ telefone = formatar_telefone_telegram(telefone)
    THEN q.updates
    ELSE NoChat

\* MessageSender._send_telegram: the result and the calls made, in order;
\* an exception of telegram_bot.send_message is caught by the except
\* clause of _send_telegram, which returns False.  scanned tells whether
\* get_updates() was called, stored is the id kept for the formatted phone
\* when the method returns.
telegram_chain(telefone, q, r) ==
    LET telefone_formatado == formatar_telefone_telegram(telefone)
    IN  IF telefone_formatado = <<>>
        THEN [ok |-> FALSE, calls |-> <<>>, scanned |-> FALSE, stored |-> q.stored]
        ELSE IF get_telegram_chat_id(q) # NoChat
        THEN [ok |-> r.bot = "ok", calls |-> <<"lookup", "telegram">>,
              scanned |-> get_updates_called(q),
              stored |-> chat_id_salvo(telefone, q)]
        ELSE LET c == iniciar_conversa_telegram(r)
             IN  [ok |-> c.ok, calls |-> <<"lookup">> \o c.calls,
                  scanned |-> get_updates_called(q),
                  stored |-> chat_id_salvo(telefone, q)]

send_telegram(telefone, q, r) == telegram_chain(telefone, q, r).ok

\* the digits behind the phones of the candidates
Numero == [p |-> <<"1","1","9","8","8","8","8","7","7","7","7">>,
           q |-> <<"(","1","1",")"," ","9","7","7","7","7","-","8","8","8","8">>]

\* MessageSender._send_message
send_message(l, canal, r) ==
    IF canal = "email" THEN r.mailgun = "ok"
    ELSE IF canal = "whatsapp" THEN r.whatsapp = "ok"
    ELSE IF canal = "telegram"
    THEN send_telegram(Numero[l.telefone], ConsultaDoPrograma, r)
    ELSE FALSE

\* mutant: the UPDATE of the lead is not guarded by the status
record_message_unguarded(db, id, canal, mensagem, status, t) ==
    [db EXCEPT
       !.mensagens = Append(@, [lead_id |-> id, canal |-> canal,
                                conteudo |-> mensagem, data_envio |-> t,
                                status |-> status]),
       !.leads = [@ EXCEPT ![id] = [@ EXCEPT !.status = "contatado",
                                             !.ultimo_contato = t,
                                             !.tentativas = @ + 1]]]

\* MessageSender._record_message: the INSERT, and the UPDATE of the lead
\* when the status is 'enviado'
record_message(db, id, canal, mensagem, status, t) ==
    [db EXCEPT
       !.mensagens = Append(@, [lead_id |-> id, canal |-> canal,
                                conteudo |-> mensagem, data_envio |-> t,
                                status |-> status]),
       !.leads = IF status = "enviado"
                 THEN [@ EXCEPT ![id] = [@ EXCEPT !.status = "contatado",
                                                  !.ultimo_contato = t,
                                                  !.tentativas = @ + 1]]
                 ELSE @]

\* mutant: the second UPDATE counts the attempt again
update_lead_status_counting(db, id, t) ==
    [db EXCEPT !.leads = [@ EXCEPT ![id] = [@ EXCEPT !.status = "contatado",
                                                     !.ultimo_contato = t,
                                                     !.tentativas = @ + 1]]]

\* MessageSender._update_lead_status
update_lead_status(db, id, t) ==
    [db EXCEPT !.leads = [@ EXCEPT ![id] = [@ EXCEPT !.status = "contatado",
                                                     !.ultimo_contato = t]]]

\* send_messages, lines 329-334: the transport is called, the message is
\* recorded, and a sent message advances the counter and the lead;
\* db is [leads, mensagens, sent_today]
Deliver(db, id, canal, mensagem, r, t) ==
    LET status == IF send_message(db.leads[id], canal, r) THEN "enviado" ELSE "falha"
        rec    == record_message(db, id, canal, mensagem, status, t)
    IN  IF status = "enviado"
        THEN update_lead_status([rec EXCEPT !.sent_today = @ + 1], id, t)
        ELSE rec

\* mutant: a lead without product or without text gets a 'falha' record
ProcessLeadSkipRecorded(db, id, t) ==
    LET lead == db.leads[id]
    IN  UNION {
          IF produto = NoProduct
          THEN {record_message(db, id, "email", <<>>, "falha", t)}
          ELSE UNION {
                 LET mensagem == generate_persuasive_message(lead, produto, canal)
                 IN  IF mensagem = <<>>
                     THEN {record_message(db, id, canal, <<>>, "falha", t)}
                     ELSE { Deliver(db, id, canal, mensagem, r, t) : r \in Transportes }
                 : canal \in { select_channel_for_lead(lead, cr) :
                                 cr \in {"whatsapp", "telegram"} } }
          : produto \in { select_product_for_lead(lead, pr) : pr \in Produtos } }

\* one iteration of the loop of send_messages for the lead id, after the
\* cap test: the stores it can end in, one per outcome of the two
\* random.choice calls and of the transports
ProcessLead(db, id, t) ==
    LET lead == db.leads[id]
    IN  UNION {
          IF produto = NoProduct THEN {db}
          ELSE UNION {
                 LET mensagem == generate_persuasive_message(lead, produto, canal)
                 IN  IF mensagem = <<>> THEN {db}
                     ELSE { Deliver(db, id, canal, mensagem, r, t) : r \in Transportes }
                 : canal \in { select_channel_for_lead(lead, cr) :
                                 cr \in {"whatsapp", "telegram"} } }
          : produto \in { select_product_for_lead(lead, pr) : pr \in Produtos } }

\* the loop of send_messages over the fetched ids from position i on
RECURSIVE SendLoop(_, _, _, _)
SendLoop(db, ids, i, t) ==
    IF i > Len(ids) THEN {db}
    ELSE IF db.sent_today >= max_messages_per_day THEN {db}
    ELSE UNION { SendLoop(d, ids, i + 1, t) : d \in ProcessLead(db, ids[i], t) }

\* mutant: the loop runs over every qualified lead, with no cap test and
\* no LIMIT
RECURSIVE SendLoopUncapped(_, _, _, _)
SendLoopUncapped(db, ids, i, t) ==
    IF i > Len(ids) THEN {db}
    ELSE UNION { SendLoopUncapped(d, ids, i + 1, t) : d \in ProcessLead(db, ids[i], t) }

send_messages_uncapped(db, t) ==
    SendLoopUncapped(db, QualifiedIds(db.leads, Len(db.leads)), 1, t)

\* MessageSender.send_messages
send_messages(db, t) ==
    IF db.sent_today >= max_messages_per_day THEN {db}
    ELSE SendLoop(db, get_qualified_leads(db.leads, db.sent_today), 1, t)

\* ------------------------------------------------------------ reconcile
Plataformas == <<"hotmart", "monetizze", "eduzz">>

\* "from datetime import datetime" is the only import from datetime: the
\* name timedelta, used to build the query window, is not defined
timedelta_imported == FALSE

\* the keys of a sale event that a _check_*_conversions reads
SaleKeys == {"email", "product", "price", "commission"}

\* a sale event of a platform response; chaves are the keys it carries
Sale(e) == [email |-> e, produto |-> "curso", valor |-> 10, comissao |-> 4,
            chaves |-> SaleKeys]

\* a sale event without the buyer e-mail, and one without the amount
SaleSemEmail    == [Sale(NULL) EXCEPT !.chaves = SaleKeys \ {"email"}]
SaleSemPreco(e) == [Sale(e) EXCEPT !.chaves = SaleKeys \ {"price"}]

\* the purchases of the model: platform and sale event
Compras == { <<"hotmart", Sale("a")>>, <<"monetizze", Sale("z")>>,
             <<"eduzz", Sale("a")>>, <<"hotmart", SaleSemEmail>>,
             <<"eduzz", SaleSemPreco("a")>> }

\* ConversionMonitor._find_lead_by_email: the first row with that e-mail,
\* 0 for None
find_lead_by_email(tbl, email) ==
    IF \E i \in 1..Len(tbl) : tbl[i].email = email
    THEN CHOOSE i \in 1..Len(tbl) :
             tbl[i].email = email /\ \A j \in 1..(i - 1) : tbl[j].email # email
    ELSE 0

\* the loop of a _check_*_conversions over the sale events of the response,
\* inside the try block of the method: the conversions list, and whether a
\* KeyError left the loop (the buyer e-mail is read for every event, the
\* other keys for an event with a lead)
RECURSIVE MatchSales(_, _, _)
MatchSales(tbl, sales, conversions) ==
    IF sales = <<>> THEN [raised |-> FALSE, conversions |-> conversions]
    ELSE LET sale == Head(sales)
         IN  IF "email" \notin sale.chaves
             THEN [raised |-> TRUE, conversions |-> conversions]
             ELSE LET lead_id == find_lead_by_email(tbl, sale.email)
                  IN  IF lead_id = 0 THEN MatchSales(tbl, Tail(sales), conversions)
                      ELSE IF ~(SaleKeys \subseteq sale.chaves)
                      THEN [raised |-> TRUE, conversions |-> conversions]
                      ELSE MatchSales(tbl, Tail(sales),
                               Append(conversions,
                                      [lead_id |-> lead_id, produto |-> sale.produto,
                                       valor |-> sale.valor,
                                       comissao |-> sale.comissao]))

\* ConversionMonitor._check_hotmart_conversions, _check_monetizze_conversions
\* and _check_eduzz_conversions: building params raises NameError before the
\* request is made, and the except clause returns []; so it does for an
\* exception raised inside the loop
check_platform_conversions(tbl, sales) ==
    IF ~timedelta_imported THEN <<>>
    ELSE LET m == MatchSales(tbl, sales, <<>>)
         IN  IF m.raised THEN <<>> ELSE m.conversions

\* mutant: the UPDATE converts contacted leads only
record_conversion_contacted(dbc, conv, t) ==
    [dbc EXCEPT
       !.conversoes = Append(@, [lead_id |-> conv.lead_id, produto |-> conv.produto,
                                 valor |-> conv.valor, data_conversao |-> t,
                                 comissao |-> conv.comissao]),
       !.leads = [@ EXCEPT ![conv.lead_id] =
                     IF @.status = "contatado" THEN [@ EXCEPT !.status = "convertido"]
                     ELSE @]]

\* ConversionMonitor._record_conversion: dbc is [leads, conversoes]
record_conversion(dbc, conv, t) ==
    [dbc EXCEPT
       !.conversoes = Append(@, [lead_id |-> conv.lead_id, produto |-> conv.produto,
                                 valor |-> conv.valor, data_conversao |-> t,
                                 comissao |-> conv.comissao]),
       !.leads = [@ EXCEPT ![conv.lead_id] = [@ EXCEPT !.status = "convertido"]]]

\* for conv in conversions: self._record_conversion(conv)
RECURSIVE RecordAll(_, _, _)
RecordAll(dbc, convs, t) ==
    IF convs = <<>> THEN dbc
    ELSE RecordAll(record_conversion(dbc, Head(convs), t), Tail(convs), t)

\* ConversionMonitor.check_conversions: Hotmart, Monetizze, Eduzz in turn
RECURSIVE CheckFrom(_, _, _, _)
CheckFrom(dbc, vs, p, t) ==
    IF p > Len(Plataformas) THEN dbc
    ELSE CheckFrom(RecordAll(dbc,
                             check_platform_conversions(dbc.leads, vs[Plataformas[p]]),
                             t),
                   vs, p + 1, t)

check_conversions(dbc, vs, t) == CheckFrom(dbc, vs, 1, t)

\* --------------------------------------------------------------- report
\* ReportGenerator._get_messages_sent: COUNT(*) of today's 'enviado' records
get_messages_sent(msgs, t) ==
    Cardinality({ i \in 1..Len(msgs) :
                    DateOf(msgs[i].data_envio) = DateOf(t)
                    /\ msgs[i].status = "enviado" })

\* ReportGenerator._get_conversions: COUNT(*) of today's conversion records
get_conversions(convs, t) ==
    Cardinality({ i \in 1..Len(convs) : DateOf(convs[i].data_conversao) = DateOf(t) })

\* SUM(comissao) over the records of convs at the positions in idx
RECURSIVE SumComissao(_, _)
SumComissao(convs, idx) ==
    IF idx = {} THEN 0
    ELSE LET i == CHOOSE j \in idx : TRUE
         IN  convs[i].comissao + SumComissao(convs, idx \ {i})

\* ReportGenerator._get_total_revenue: SUM(comissao) of today's conversion
\* records, 0.0 when there is none
get_total_revenue(convs, t) ==
    SumComissao(convs, { i \in 1..Len(convs) :
                           DateOf(convs[i].data_conversao) = DateOf(t) })

\* the rows of SELECT produto, COUNT(*) as vendas, SUM(comissao) as receita
\* FROM conversoes GROUP BY produto
GroupByProduto(convs) ==
    { LET idx == { i \in 1..Len(convs) : convs[i].produto = p }
      IN  [produto |-> p, vendas |-> Cardinality(idx),
           receita |-> SumComissao(convs, idx)]
      : p \in { convs[i].produto : i \in 1..Len(convs) } }

\* ReportGenerator._get_top_products: the lists that ORDER BY receita DESC
\* LIMIT 3 can return (SQL leaves the order of equal sums open); the query
\* has no WHERE clause
get_top_products(convs) ==
    LET rows == GroupByProduto(convs)
        n    == IF Cardinality(rows) < 3 THEN Cardinality(rows) ELSE 3
    IN  { s \in [1..n -> rows] :
            /\ \A a, b \in 1..n : a < b => s[a] # s[b] /\ s[a].receita >= s[b].receita
            /\ \A x \in rows : (\A a \in 1..n : s[a] # x) =>
                                  \A a \in 1..n : s[a].receita >= x.receita }

\* a float as the fraction num / den; den = 0 stands for ZeroDivisionError
Fraction(n, d) == [num |-> n, den |-> d]

\* mutant: the division is made without the test for zero
get_conversion_rate_unguarded(msgs, convs, t) ==
    Fraction(get_conversions(convs, t) * 100, get_messages_sent(msgs, t))

\* ReportGenerator._get_conversion_rate
get_conversion_rate(msgs, convs, t) ==
    LET messages_sent == get_messages_sent(msgs, t)
        conversions   == get_conversions(convs, t)
    IN  IF messages_sent = 0 THEN Fraction(0, 1)
        ELSE Fraction(conversions * 100, messages_sent)

\* ------------------------------------------------------------- the agent
\* candidates of one collect_leads run: website_leads + api_leads
RECURSIVE BatchesUpTo(_)
BatchesUpTo(n) ==
    IF n = 0 THEN {<<>>}
    ELSE LET S == BatchesUpTo(n - 1)
         IN  S \cup { Append(b, c) : b \in { x \in S : Len(x) = n - 1 },
                                     c \in Candidatos }

Batches == BatchesUpTo(MaxBatch)

NoVendas == [p \in {"hotmart", "monetizze", "eduzz"} |-> <<>>]

TotalVendas(vs) == Len(vs["hotmart"]) + Len(vs["monetizze"]) + Len(vs["eduzz"])

\* what AutonomousSalesAgent.__init__ acquires: the Chrome driver of
\* LeadCollector and one sqlite3 connection per component
Recursos == {"lead_collector.driver", "lead_collector.db_conn",
             "message_sender.db_conn", "conversion_monitor.db_conn",
             "report_generator.db_conn"}

\* LeadCollector.close: driver.quit(), then db_conn.close()
close(held) == held \ {"lead_collector.driver", "lead_collector.db_conn"}

\* no method has been called directly
NoCall == [fn |-> "none", arg |-> <<>>, ret |-> <<>>]

\* schedule.every().day.at(h): the first time of day h after now, in hours
NextRunAt(h, now) ==
    IF now % 24 < h THEN (now \div 24) * 24 + h
    ELSE (now \div 24 + 1) * 24 + h

\* _setup_scheduler at the hour now: five jobs, none pending, none running.
\* agora is the clock, next_run the time each job is next due, pendentes
\* the jobs run_pending() has found due and not yet run, executando the
\* job in progress (0: none) and inicio the hour it began, registro what
\* run() has done since it was entered: <<"inicio" | "fim" | "erro", job, day>>
Agendar(now) ==
    [agora      |-> now,
     next_run   |-> [j \in 1..Len(Agenda) |-> NextRunAt(Hora[j], now)],
     pendentes  |-> <<>>,
     executando |-> 0,
     inicio     |-> 0,
     registro   |-> <<>>]

\* job.should_run of the jobs
DueJobs(a) == { j \in 1..Len(Agenda) : a.next_run[j] <= a.agora }

\* mutant: the due jobs are run latest first
RECURSIVE SortByNextRunDesc(_, _)
SortByNextRunDesc(jobs, next_run) ==
    IF jobs = {} THEN <<>>
    ELSE LET j == CHOOSE x \in jobs : \A y \in jobs : next_run[x] >= next_run[y]
         IN  <<j>> \o SortByNextRunDesc(jobs \ {j}, next_run)

\* sorted(runnable_jobs) in schedule.run_pending: by next_run, earliest first
RECURSIVE SortByNextRun(_, _)
SortByNextRun(jobs, next_run) ==
    IF jobs = {} THEN <<>>
    ELSE LET j == CHOOSE x \in jobs : \A y \in jobs : next_run[x] <= next_run[y]
         IN  <<j>> \o SortByNextRun(jobs \ {j}, next_run)

\* AutonomousSalesAgent.__init__ on an empty leads.db, started at any hour:
\* slot is the job that is due next; the clock of SpecRun starts an hour
\* before the first job and reaches the other hours by Tick and Start
Init ==
    /\ leads = <<>>
    /\ mensagens = <<>>
    /\ conversoes = <<>>
    /\ sent_today = 0
    /\ vendas = NoVendas
    /\ dia = 1
    /\ slot \in 1..Len(Agenda)
    /\ running = TRUE
    /\ all_leads = <<>>
    /\ abertos = Recursos
    /\ chamada = NoCall
    /\ agendador = Agendar(Stamp(dia, 1) - 1)

\* schedule: the job is rescheduled for the next day, the next one is due
Advance ==
    IF slot < Len(Agenda)
    THEN slot' = slot + 1 /\ dia' = dia
    ELSE slot' = 1 /\ dia' = dia + 1

Due(job) == running /\ dia <= MaxDia /\ Agenda[slot] = job

\* AutonomousSalesAgent.collect_leads
CollectLeads ==
    /\ Due("collect_leads")
    /\ \E batch \in Batches :
         /\ all_leads' = batch
         /\ leads' = save_leads(leads, batch, Stamp(dia, slot))
         /\ Len(leads') <= MaxLeads
    /\ Advance
    /\ UNCHANGED <<mensagens, conversoes, sent_today, vendas, running>>
    /\ UNCHANGED <<abertos, chamada>>
    /\ UNCHANGED agendador

\* AutonomousSalesAgent.send_messages
SendMessages ==
    /\ Due("send_messages")
    /\ \E d \in send_messages([leads |-> leads, mensagens |-> mensagens,
                               sent_today |-> sent_today], Stamp(dia, slot)) :
         /\ leads' = d.leads
         /\ mensagens' = d.mensagens
         /\ sent_today' = d.sent_today
    /\ Advance
    /\ all_leads' = <<>>
    /\ UNCHANGED <<conversoes, vendas, running, abertos, chamada>>
    /\ UNCHANGED agendador

\* AutonomousSalesAgent.check_conversions
CheckConversions ==
    /\ Due("check_conversions")
    /\ LET d == check_conversions([leads |-> leads, conversoes |-> conversoes],
                                  vendas, Stamp(dia, slot))
       IN  leads' = d.leads /\ conversoes' = d.conversoes
    /\ Advance
    /\ all_leads' = <<>>
    /\ UNCHANGED <<mensagens, sent_today, vendas, running, abertos, chamada>>
    /\ UNCHANGED agendador

\* AutonomousSalesAgent.generate_report: _save_report reads
\* report['conversion_rate'], a key generate_daily_report never sets; the
\* KeyError leaves run(), which catches KeyboardInterrupt only
GenerateReport ==
    /\ Due("generate_report")
    /\ running' = FALSE
    /\ Advance
    /\ all_leads' = <<>>
    /\ UNCHANGED <<leads, mensagens, conversoes, sent_today, vendas>>
    /\ UNCHANGED <<abertos, chamada>>
    /\ UNCHANGED agendador

\* AutonomousSalesAgent.run: KeyboardInterrupt, and the except clause calls
\* self.lead_collector.close()
Interrupt ==
    /\ running
    /\ running' = FALSE
    /\ all_leads' = <<>>
    /\ abertos' = close(abertos)
    /\ UNCHANGED <<leads, mensagens, conversoes, sent_today, vendas, dia, slot>>
    /\ UNCHANGED chamada
    /\ UNCHANGED agendador

\* the program is started again on the leads.db it left, before the next
\* job is due: MessageSender.__init__ sets sent_today = 0 and
\* _setup_scheduler registers the jobs anew
Start ==
    /\ ~running
    /\ dia <= MaxDia
    /\ running' = TRUE
    /\ sent_today' = 0
    /\ all_leads' = <<>>
    /\ abertos' = Recursos
    /\ UNCHANGED <<leads, mensagens, conversoes, vendas, dia, slot, chamada>>
    /\ agendador' = Agendar(agendador.agora)

\* a buyer completes a purchase on an affiliate platform
\* (a sale is seen by the next query only, so it is taken when that query is due)
Venda ==
    /\ Due("check_conversions")
    /\ TotalVendas(vendas) < MaxVendas
    /\ \E c \in Compras :
         vendas' = [vendas EXCEPT ![c[1]] = Append(@, c[2])]
    /\ all_leads' = <<>>
    /\ UNCHANGED <<leads, mensagens, conversoes, sent_today, dia, slot, running>>
    /\ UNCHANGED <<abertos, chamada>>
    /\ UNCHANGED agendador

Next ==
    \/ CollectLeads
    \/ SendMessages
    \/ CheckConversions
    \/ GenerateReport
    \/ Interrupt
    \/ Start
    \/ Venda

Spec == Init /\ [][Next]_vars

\* ConversionMonitor._record_conversion called on its own when the
\* reconciliation is due, with a conversion dict as a _check_*_conversions
\* builds it for a stored lead
RecordConversionCall ==
    /\ Due("check_conversions")
    /\ Len(conversoes) < MaxConv
    /\ \E id \in 1..Len(leads) :
         LET d == record_conversion([leads |-> leads, conversoes |-> conversoes],
                                    [lead_id |-> id, produto |-> "curso",
                                     valor |-> 10, comissao |-> 4],
                                    Stamp(dia, slot))
         IN  leads' = d.leads /\ conversoes' = d.conversoes
    /\ all_leads' = <<>>
    /\ UNCHANGED <<mensagens, sent_today, vendas, dia, slot, running>>
    /\ UNCHANGED <<abertos, chamada>>
    /\ UNCHANGED agendador

NextUnit ==
    \/ CollectLeads
    \/ SendMessages
    \/ CheckConversions
    \/ GenerateReport
    \/ Interrupt
    \/ Start
    \/ RecordConversionCall

SpecUnit == Init /\ [][NextUnit]_vars

\* ------------------------------------------------ the loop of run()
\* an hour passes: in time.sleep(1) once run_pending() has found nothing
\* due, inside the job in progress, or while the process is down
Tick ==
    /\ DateOf(agendador.agora + 1) <= MaxDia
    /\ running =>
          IF agendador.executando = 0
          THEN agendador.pendentes = <<>> /\ DueJobs(agendador) = {}
          ELSE agendador.agora - agendador.inicio < MaxDuracao
    /\ agendador' = [agendador EXCEPT !.agora = @ + 1]
    /\ UNCHANGED <<leads, mensagens, conversoes, sent_today, vendas, dia, slot,
                   running, all_leads, abertos, chamada>>

\* schedule.run_pending(): the jobs that are due, in the order they will run
RunPending ==
    /\ running
    /\ agendador.executando = 0
    /\ agendador.pendentes = <<>>
    /\ DueJobs(agendador) # {}
    /\ agendador' = [agendador EXCEPT
                       !.pendentes = SortByNextRun(DueJobs(agendador), agendador.next_run)]
    /\ UNCHANGED <<leads, mensagens, conversoes, sent_today, vendas, dia, slot,
                   running, all_leads, abertos, chamada>>

\* run_pending() calls the next of the due jobs
BeginJob ==
    /\ running
    /\ agendador.executando = 0
    /\ agendador.pendentes # <<>>
    /\ LET j == Head(agendador.pendentes)
       IN  agendador' = [agendador EXCEPT
                           !.pendentes  = Tail(@),
                           !.executando = j,
                           !.inicio     = agendador.agora,
                           !.registro   = Append(@, <<"inicio", j, DateOf(agendador.agora)>>)]
    /\ UNCHANGED <<leads, mensagens, conversoes, sent_today, vendas, dia, slot,
                   running, all_leads, abertos, chamada>>

\* collect_leads, send_messages or check_conversions returns (each catches
\* what its calls raise) and the job is scheduled for its next day
JobReturns ==
    /\ running
    /\ agendador.executando # 0
    /\ Agenda[agendador.executando] # "generate_report"
    /\ LET j == agendador.executando
       IN  agendador' = [agendador EXCEPT
                           !.executando  = 0,
                           !.next_run[j] = NextRunAt(Hora[j], agendador.agora),
                           !.registro    = Append(@, <<"fim", j, DateOf(agendador.agora)>>)]
    /\ UNCHANGED <<leads, mensagens, conversoes, sent_today, vendas, dia, slot,
                   running, all_leads, abertos, chamada>>

\* generate_report raises KeyError out of run_pending() and run()
ReportRaises ==
    /\ running
    /\ agendador.executando # 0
    /\ Agenda[agendador.executando] = "generate_report"
    /\ running' = FALSE
    /\ agendador' = [agendador EXCEPT
                       !.executando = 0,
                       !.pendentes  = <<>>,
                       !.registro   = Append(@, <<"erro", agendador.executando,
                                                  DateOf(agendador.agora)>>)]
    /\ UNCHANGED <<leads, mensagens, conversoes, sent_today, vendas, dia, slot,
                   all_leads, abertos, chamada>>

NextRun ==
    \/ Tick
    \/ RunPending
    \/ BeginJob
    \/ JobReturns
    \/ ReportRaises
    \/ Interrupt
    \/ Start

SpecRun == Init /\ [][NextRun]_vars

\* ------------------------------------------- repeated dispatch cycles
\* the e-mail address of the lead collected on day i
Enderecos == <<"a", "b", "c", "d", "e">>

\* the lead dicts collected on day i, an e-mail and no phone: tags that
\* match no product, tags that match produto1, tags that match produto2
CandidatosDoDia(i) ==
    { Cand(nomeBo,  Enderecos[i], NULL, tagGeral),
      Cand(nomeAna, Enderecos[i], NULL, tagVendas),
      Cand(nomeBo,  Enderecos[i], NULL, tagDinheiro) }

\* the tables that collect_leads leaves after n days, one lead a day
RECURSIVE TabelasApos(_)
TabelasApos(n) ==
    IF n = 0 THEN { <<>> }
    ELSE { save_leads(tbl, <<c>>, Stamp(n, 1)) :
             tbl \in TabelasApos(n - 1), c \in CandidatosDoDia(n) }

\* a table of leads collected on earlier days, none contacted yet, and the
\* 11:00 job of the next day due
InitCycles ==
    /\ \E n \in 1..MaxFila :
         /\ leads \in TabelasApos(n)
         /\ dia = n + 1
    /\ mensagens = <<>>
    /\ conversoes = <<>>
    /\ sent_today = 0
    /\ vendas = NoVendas
    /\ slot = 2
    /\ running = TRUE
    /\ all_leads = <<>>
    /\ abertos = Recursos
    /\ chamada = NoCall
    /\ agendador = Agendar(Stamp(dia, 1) - 1)

\* MessageSender.send_messages with sent_today = 0 on entry and transports
\* that accept every message: no record with status 'falha' is written
SendCycle ==
    /\ \E d \in send_messages([leads |-> leads, mensagens |-> mensagens,
                               sent_today |-> 0], Stamp(dia, slot)) :
         /\ \A m \in (Len(mensagens) + 1)..Len(d.mensagens) :
               d.mensagens[m].status = "enviado"
         /\ leads' = d.leads
         /\ mensagens' = d.mensagens
         /\ sent_today' = d.sent_today
    /\ UNCHANGED <<conversoes, vendas, dia, slot, running, all_leads, abertos,
                   chamada, agendador>>

NextCycles == SendCycle

SpecCycles == InitCycles /\ [][NextCycles]_vars /\ WF_vars(SendCycle)

\* ---------------------------------------------- methods called directly
\* n copies of the character c
Rep(c, n) == [i \in 1..n |-> c]

\* a number written as "(dd) d...d-dddd"
Mascara(d) ==
    IF Len(d) < 6 THEN <<" ">> \o d \o <<"-">>
    ELSE <<"(">> \o SubSeq(d, 1, 2) \o <<")", " ">> \o SubSeq(d, 3, Len(d) - 4)
         \o <<"-">> \o SubSeq(d, Len(d) - 3, Len(d))

telExemplo == <<"(","1","1",")"," ","9","9","9","9","9","-","8","8","8","8">>
telLetras  == <<"a","b","c">>

\* how a number can begin
Prefixos == { <<>>, <<"5">>, <<"5","5">>, <<"1","1">>, <<"5","1">> }

\* digit strings: a prefix and up to MaxNove nines
Numeros == { pre \o Rep("9", n) : pre \in Prefixos, n \in 0..MaxNove }

\* the phone strings handed to _formatar_telefone_telegram
Telefones ==
    {telExemplo, telLetras, <<"-">>}
    \cup Numeros
    \cup { Mascara(d) : d \in Numeros }
    \cup { <<"+">> \o d : d \in Numeros }

\* the (truthy) phone strings handed to _send_telegram
telNormal == <<"+", "5", "5">> \o Numero.p

TelefonesChat == {telExemplo, telLetras, <<"-">>, Numero.p, telNormal}

\* what the chat-id lookup can meet
Consultas == [colunas : {LeadsColumns, LeadsColumns \cup {"telegram_chat_id"}},
              stored  : {NoChat, 7},
              updates : {NoChat, 8}]

\* _formatar_telefone_telegram(telefone)
FormatarCall ==
    /\ \E telefone \in Telefones :
         chamada' = [fn  |-> "_formatar_telefone_telegram",
                     arg |-> telefone,
                     ret |-> formatar_telefone_telegram(telefone)]
    /\ UNCHANGED <<leads, mensagens, conversoes, sent_today, vendas, dia, slot,
                   running, all_leads, abertos>>
    /\ UNCHANGED agendador

\* the record of a call of _send_telegram(telefone, mensagem): n counts the
\* calls made for this phone, q0 is what the first of them met, and status
\* is what line 329 of send_messages derives from the result
TelegramCall(n, q0, telefone, q, r) ==
    LET c == telegram_chain(telefone, q, r)
    IN  [fn  |-> "_send_telegram",
         arg |-> [telefone |-> telefone, q |-> q, r |-> r, n |-> n, q0 |-> q0],
         ret |-> [ok |-> c.ok, calls |-> c.calls,
                  scanned |-> c.scanned, stored |-> c.stored,
                  status |-> IF send_telegram(telefone, q, r)
                             THEN "enviado" ELSE "falha"]]

\* _send_telegram(telefone, mensagem)
SendTelegramCall ==
    /\ \E telefone \in TelefonesChat, q \in Consultas,
          r \in { x \in Transportes : x.mailgun = "ok" } :
         chamada' = TelegramCall(1, q, telefone, q, r)
    /\ UNCHANGED <<leads, mensagens, conversoes, sent_today, vendas, dia, slot,
                   running, all_leads, abertos>>
    /\ UNCHANGED agendador

\* a later _send_telegram(telefone, mensagem) for the same phone: the table
\* is as the first call left it, and get_updates() still returns the
\* contact or no longer does
SendTelegramAgain ==
    /\ chamada.fn = "_send_telegram"
    /\ chamada.arg.n = 1
    /\ \E r \in { x \in Transportes : x.mailgun = "ok" },
          u \in {NoChat, chamada.arg.q.updates} :
         chamada' = TelegramCall(2, chamada.arg.q, chamada.arg.telefone,
                                 [chamada.arg.q EXCEPT !.stored = chamada.ret.stored,
                                                       !.updates = u], r)
    /\ UNCHANGED <<leads, mensagens, conversoes, sent_today, vendas, dia, slot,
                   running, all_leads, abertos>>
    /\ UNCHANGED agendador

\* the interest tags handed to _select_product_for_lead
tagMarketingDigital == <<"m","a","r","k","e","t","i","n","g"," ","d","i","g","i","t","a","l">>
tagInvestimentos    == <<"i","n","v","e","s","t","i","m","e","n","t","o","s">>
tagVENDAS           == <<"V","E","N","D","A","S">>
tagDinheiroEVendas  == <<"D","i","n","h","e","i","r","o"," ","e"," ","V","e","n","d","a","s">>
tagEmpreendedorismo == <<"E","m","p","r","e","e","n","d","e","d","o","r","i","s","m","o">>
tagNEGOCIO          == <<"N","E","G","Ó","C","I","O"," ","l","o","c","a","l">>
tagNegocioInveste   == <<"n","e","g","ó","c","i","o",","," ","i","n","v","e","s","t","i","m","e","n","t","o">>
tagVenda            == <<"v","e","n","d","a">>

Interesses == { tagMarketingDigital, tagInvestimentos, tagVENDAS, tagDinheiroEVendas,
                tagEmpreendedorismo, tagNEGOCIO, tagNegocioInveste, tagVenda,
                tagVendas, tagDinheiro, tagNegocio, tagGeral, <<>> }

\* _select_channel_for_lead(lead)
SelectChannelCall ==
    /\ \E e \in {NULL, "", "a"}, t \in {NULL, "", "p"}, rnd \in {"whatsapp", "telegram"} :
         LET lead == Cand(nomeBo, e, t, tagGeral)
         IN  chamada' = [fn  |-> "_select_channel_for_lead",
                         arg |-> [lead |-> lead, rnd |-> rnd],
                         ret |-> select_channel_for_lead(lead, rnd)]
    /\ UNCHANGED <<leads, mensagens, conversoes, sent_today, vendas, dia, slot,
                   running, all_leads, abertos>>
    /\ UNCHANGED agendador

\* _select_product_for_lead(lead)
SelectProductCall ==
    /\ \E i \in Interesses, rnd \in Produtos :
         LET lead == Cand(nomeBo, "a", "p", i)
         IN  chamada' = [fn  |-> "_select_product_for_lead",
                         arg |-> [lead |-> lead, rnd |-> rnd],
                         ret |-> select_product_for_lead(lead, rnd)]
    /\ UNCHANGED <<leads, mensagens, conversoes, sent_today, vendas, dia, slot,
                   running, all_leads, abertos>>
    /\ UNCHANGED agendador

NextCalls ==
    \/ FormatarCall
    \/ SendTelegramCall
    \/ SendTelegramAgain
    \/ SelectChannelCall
    \/ SelectProductCall

SpecCalls == Init /\ [][NextCalls]_vars

\* ----------------------------------------------------------- properties
\* the positions of the message records a step appends
NewMsgs == (Len(mensagens) + 1)..Len(mensagens')

\* the number of records of msgs with outcome 'enviado' that reference id
RECURSIVE CountEnviado(_, _)
CountEnviado(msgs, id) ==
    IF msgs = <<>> THEN 0
    ELSE (IF Head(msgs).lead_id = id /\ Head(msgs).status = "enviado" THEN 1 ELSE 0)
         + CountEnviado(Tail(msgs), id)

\* C1: one invocation of send_messages appends at most
\* max_messages_per_day - sent_today records with outcome 'enviado', and
\* none when sent_today is already at or above the cap.
C1_CapRespect ==
    [][ Cardinality({ i \in NewMsgs : mensagens'[i].status = "enviado" })
          <= (IF sent_today >= max_messages_per_day THEN 0
              ELSE max_messages_per_day - sent_today) ]_vars

\* the cap has been reached while a lead with an eligible product, stored
\* before the last dispatch, is still waiting for its first message
C1_Witness ==
    /\ sent_today = max_messages_per_day
    /\ \E i \in 1..Len(leads) :
         /\ leads[i].status = "novo"
         /\ select_product_for_lead(leads[i], "produto1") # NoProduct
         /\ \A m \in 1..Len(mensagens) : mensagens[m].lead_id # i
         /\ \E m \in 1..Len(mensagens) :
              mensagens[m].data_envio > leads[i].data_coleta

\* C2: for every lead, tentativas equals the number of 'enviado' records
\* that reference it, and never exceeds 3.
C2_AttemptsCountSent ==
    \A i \in 1..Len(leads) :
        /\ leads[i].tentativas = CountEnviado(mensagens, i)
        /\ leads[i].tentativas <= AttemptCeiling

\* a lead has been sent three messages
C2_Witness ==
    \E i \in 1..Len(leads) :
        leads[i].tentativas = AttemptCeiling /\ CountEnviado(mensagens, i) = 3

\* a lead that is 'convertido' or has reached the attempt ceiling
Spent(l) == l.status = "convertido" \/ l.tentativas >= AttemptCeiling

\* what the next invocation of send_messages fetches
NextFetch(tbl, sent) ==
    IF sent >= max_messages_per_day THEN <<>> ELSE get_qualified_leads(tbl, sent)

InSeq(x, sq) == \E k \in 1..Len(sq) : sq[k] = x

\* C3: _get_qualified_leads never returns a lead that is 'convertido' or
\* whose tentativas is at or above 3, whatever sent_today is, and no step
\* appends a message record for such a lead.
C3_QualifiedNeverSpent ==
    [][ /\ \A sent \in 0..max_messages_per_day :
             LET ids == get_qualified_leads(leads, sent)
             IN  \A k \in 1..Len(ids) : ~Spent(leads[ids[k]])
        /\ \A m \in NewMsgs : ~Spent(leads[mensagens'[m].lead_id]) ]_vars

\* a lead has reached the ceiling and a later dispatch has processed
\* another lead
C3_Witness ==
    \E i \in 1..Len(leads), m \in 1..Len(mensagens) :
        /\ leads[i].tentativas = AttemptCeiling
        /\ mensagens[m].lead_id # i
        /\ mensagens[m].data_envio > leads[i].ultimo_contato

\* the step is the check_conversions job
IsCheckStep == running /\ Agenda[slot] = "check_conversions" /\ slot' # slot

NewConvs == (Len(conversoes) + 1)..Len(conversoes')

\* C4: after check_conversions, every sale event of a platform whose buyer
\* e-mail is the e-mail of a stored lead has a conversion record for that
\* lead, which is 'convertido'; an event without a lead adds no record;
\* every conversion record references a stored lead.
C4_SalesReconciled ==
    [][ IsCheckStep =>
          /\ \A p \in DOMAIN vendas : \A k \in 1..Len(vendas[p]) :
               LET id == find_lead_by_email(leads, vendas[p][k].email)
               IN  id # 0 =>
                     /\ \E c \in NewConvs : conversoes'[c].lead_id = id
                     /\ leads'[id].status = "convertido"
          /\ Len(conversoes') - Len(conversoes) =
               Cardinality({ <<p, k>> \in (DOMAIN vendas) \X (1..MaxVendas) :
                               /\ k <= Len(vendas[p])
                               /\ find_lead_by_email(leads, vendas[p][k].email) # 0 })
          /\ \A c \in 1..Len(conversoes') :
               conversoes'[c].lead_id \in 1..Len(leads') ]_vars

\* C5: the status of a lead never goes from 'contatado' back to 'novo',
\* a lead that is 'convertido' stays so, and a lead is 'convertido' only
\* if a conversion record references it.
C5_StatusForward ==
    [][ /\ \A i \in 1..Len(leads) :
             /\ leads[i].status = "contatado" => leads'[i].status # "novo"
             /\ leads[i].status = "convertido" => leads'[i].status = "convertido"
        /\ \A i \in 1..Len(leads') :
             leads'[i].status = "convertido" =>
                \E c \in 1..Len(conversoes') : conversoes'[c].lead_id = i ]_vars

\* a contacted lead was converted, and a later dispatch has processed
\* another lead
C5_Witness ==
    \E i \in 1..Len(leads), c \in 1..Len(conversoes), m \in 1..Len(mensagens) :
        /\ leads[i].status = "convertido"
        /\ leads[i].tentativas >= 1
        /\ conversoes[c].lead_id = i
        /\ mensagens[m].lead_id # i
        /\ mensagens[m].data_envio > conversoes[c].data_conversao

\* what a step that appends 'falha' records leaves alone: one record per
\* lead, the lead's row unchanged, sent_today moved by the sent records only
FailureFrame(m) ==
    LET id == mensagens'[m].lead_id
    IN  /\ Cardinality({ n \in NewMsgs : mensagens'[n].lead_id = id }) = 1
        /\ leads'[id] = leads[id]
        /\ sent_today' - sent_today =
             Cardinality({ n \in NewMsgs : mensagens'[n].status = "enviado" })

\* C6 as stated: a failed send appends exactly one 'falha' record, leaves
\* the lead's status, last contact, attempts and sent_today unchanged, and
\* the lead is returned by _get_qualified_leads in the next cycle.
C6_FailedSendRefetched ==
    [][ \A m \in NewMsgs :
          mensagens'[m].status = "falha" =>
             /\ FailureFrame(m)
             /\ InSeq(mensagens'[m].lead_id, NextFetch(leads', sent_today')) ]_vars

\* C6 as amended: a failed send appends exactly one 'falha' record and
\* leaves the lead's row and sent_today unchanged, so the lead still passes
\* the filter of _get_qualified_leads, and the next fetch returns it when
\* it is among the first max_messages_per_day - sent_today rows that pass.
C6_FailedSendStillQualified ==
    [][ \A m \in NewMsgs :
          mensagens'[m].status = "falha" =>
             LET id  == mensagens'[m].lead_id
                 ids == QualifiedIds(leads', Len(leads'))
             IN  /\ FailureFrame(m)
                 /\ IsQualified(leads'[id])
                 /\ \A k \in 1..Len(ids) :
                      (ids[k] = id /\ k <= max_messages_per_day - sent_today')
                         => InSeq(id, NextFetch(leads', sent_today')) ]_vars

\* a send to a new lead has failed: the record is there, the lead is as
\* save_leads inserted it
C6_Witness ==
    \E m \in 1..Len(mensagens) :
        /\ mensagens[m].status = "falha"
        /\ leads[mensagens[m].lead_id].status = "novo"
        /\ leads[mensagens[m].lead_id].tentativas = 0
        /\ leads[mensagens[m].lead_id].ultimo_contato = NoTime

\* two rows share a non-empty e-mail or a non-empty phone
SharedContact(a, b) ==
    \/ Truthy(a.email) /\ a.email = b.email
    \/ Truthy(a.telefone) /\ a.telefone = b.telefone

\* the step is the collect_leads job
IsCollectStep == running /\ Agenda[slot] = "collect_leads" /\ slot' # slot

\* C7: save_leads inserts no candidate that shares a non-empty e-mail or a
\* non-empty phone with a stored lead or with an inserted candidate of the
\* same batch, and leaves the stored rows unchanged: no two stored leads
\* share a non-empty e-mail or a non-empty phone.
C7_NoSharedContact ==
    [][ /\ Len(leads') >= Len(leads)
        /\ \A i \in 1..Len(leads) :
             /\ leads'[i].nome = leads[i].nome
             /\ leads'[i].email = leads[i].email
             /\ leads'[i].telefone = leads[i].telefone
             /\ leads'[i].interesses = leads[i].interesses
             /\ leads'[i].data_coleta = leads[i].data_coleta
             /\ IsCollectStep => leads'[i] = leads[i]
        /\ \A i, j \in 1..Len(leads') :
             i # j => ~SharedContact(leads'[i], leads'[j]) ]_vars

\* the candidate c is not a row of the table
NotStored(c) ==
    \A j \in 1..Len(leads) :
        leads[j].email # c.email \/ leads[j].telefone # c.telefone

\* save_leads has been handed a candidate with the e-mail of a stored lead
\* and another phone, and one with the phone of a stored lead and another
\* e-mail; neither is in the table
C7_Witness ==
    /\ \E k \in 1..Len(all_leads), i \in 1..Len(leads) :
         /\ Truthy(all_leads[k].email)
         /\ all_leads[k].email = leads[i].email
         /\ all_leads[k].telefone # leads[i].telefone
         /\ NotStored(all_leads[k])
    /\ \E k \in 1..Len(all_leads), i \in 1..Len(leads) :
         /\ Truthy(all_leads[k].telefone)
         /\ all_leads[k].telefone = leads[i].telefone
         /\ all_leads[k].email # leads[i].email
         /\ NotStored(all_leads[k])

\* C8: a candidate that shares no non-empty e-mail and no non-empty phone
\* with a stored lead or with another candidate of the batch is inserted,
\* even when its empty e-mail (or empty phone) is also that of a stored lead
\* (stated for stored leads and candidates that all have an e-mail or a phone).
C8_EmptyFieldNoDuplicate ==
    [][ IsCollectStep =>
          \A k \in 1..Len(all_leads') :
             ( /\ \A i \in 1..Len(leads) : ~SharedContact(all_leads'[k], leads[i])
               /\ \A n \in 1..Len(all_leads') :
                    n # k => ~SharedContact(all_leads'[k], all_leads'[n])
               /\ \A n \in 1..Len(all_leads') :
                    Truthy(all_leads'[n].email) \/ Truthy(all_leads'[n].telefone)
               /\ \A i \in 1..Len(leads) :
                    Truthy(leads[i].email) \/ Truthy(leads[i].telefone) )
             => \E j \in (Len(leads) + 1)..Len(leads') :
                   /\ leads'[j].email = all_leads'[k].email
                   /\ leads'[j].telefone = all_leads'[k].telefone ]_vars

\* C9: every stored lead has a non-empty e-mail or a non-empty phone.
C9_ContactPresent ==
    \A i \in 1..Len(leads) : Truthy(leads[i].email) \/ Truthy(leads[i].telefone)

\* C10: a step that records a conversion for a lead leaves that lead
\* 'convertido' whatever its status was, 'convertido' included, and changes
\* nothing else of the leads table.
C10_MarkConvertedIdempotent ==
    [][ \A c \in NewConvs :
          LET id == conversoes'[c].lead_id
          IN  /\ id \in 1..Len(leads)
              /\ leads'[id] = [leads[id] EXCEPT !.status = "convertido"]
              /\ \A j \in 1..Len(leads) :
                   (\A d \in NewConvs : conversoes'[d].lead_id # j)
                      => leads'[j] = leads[j] ]_vars

\* _record_conversion has been applied to a lead that was new, and again
\* to the same lead, already 'convertido'
C10_Witness ==
    \E i \in 1..Len(leads), c, d \in 1..Len(conversoes) :
        /\ c < d
        /\ conversoes[c].lead_id = i
        /\ conversoes[d].lead_id = i
        /\ leads[i].status = "convertido"
        /\ leads[i].tentativas = 0

\* the last direct call was of _send_telegram
IsTelegramCall == chamada.fn = "_send_telegram"

\* C11: in _send_telegram, when no chat id is found for the phone and the
\* WhatsApp invitation fails (returns false or raises), an accepted SMS
\* invitation makes the send succeed, and the status of the message record
\* is 'enviado'.
C11_SmsFallbackSucceeds ==
    ( /\ IsTelegramCall
      /\ get_telegram_chat_id(chamada.arg.q) = NoChat
      /\ chamada.arg.r.whatsapp # "ok"
      /\ chamada.arg.r.sms = "ok" )
    => /\ chamada.ret.ok
       /\ chamada.ret.status = "enviado"

\* the lookup found nothing in a table that has the column, the Twilio
\* WhatsApp call raised, the SMS was accepted
C11_Witness ==
    /\ IsTelegramCall
    /\ "telegram_chat_id" \in chamada.arg.q.colunas
    /\ chamada.arg.q.stored = NoChat /\ chamada.arg.q.updates = NoChat
    /\ chamada.arg.r.whatsapp = "raise"
    /\ chamada.arg.r.sms = "ok"
    /\ chamada.ret.calls = <<"lookup", "whatsapp", "sms">>
    /\ chamada.ret.status = "enviado"

\* whether the transport named by a call accepted the message
Accepted(call, r) ==
    \/ call = "telegram" /\ r.bot = "ok"
    \/ call = "whatsapp" /\ r.whatsapp = "ok"
    \/ call = "sms" /\ r.sms = "ok"

\* C12: the Telegram chain (direct send with a known chat id, invitation
\* by WhatsApp, invitation by SMS) calls no transport after one has
\* accepted, and _send_telegram reports failure only when the WhatsApp and
\* the SMS invitation have both been tried and have failed, also after a
\* failed direct send.
C12_ChainShortCircuit ==
    IsTelegramCall =>
        LET calls == chamada.ret.calls
            r     == chamada.arg.r
        IN  /\ \A i \in 1..(Len(calls) - 1) : ~Accepted(calls[i], r)
            /\ chamada.ret.ok <=> \E i \in 1..Len(calls) : Accepted(calls[i], r)
            /\ ~chamada.ret.ok =>
                  /\ InSeq("whatsapp", calls)
                  /\ InSeq("sms", calls)

\* C13: a phone without any digit makes _formatar_telefone_telegram fail,
\* and _send_telegram returns failure with no lookup and no transport call.
C13_NoDigitsFailFast ==
    /\ ( chamada.fn = "_formatar_telefone_telegram"
         /\ SelectSeq(chamada.arg, IsDigit) = <<>> )
       => chamada.ret = <<>>
    /\ ( IsTelegramCall /\ SelectSeq(chamada.arg.telefone, IsDigit) = <<>> )
       => ~chamada.ret.ok /\ chamada.ret.calls = <<>>

\* C14: for a phone with at least one digit, _formatar_telefone_telegram
\* returns '+' and the digits of the input in order, with '55' in front
\* exactly when there are 11 digits that do not begin with '55';
\* "(11) 99999-8888" gives "+5511999998888"; formatting the result again
\* returns it unchanged.
C14_PhoneNormalized ==
    chamada.fn = "_formatar_telefone_telegram" =>
        LET d   == SelectSeq(chamada.arg, IsDigit)
            ret == chamada.ret
        IN  /\ d # <<>> =>
                 /\ ret[1] = "+"
                 /\ LET com55 == Len(d) = 11 /\ SubSeq(d, 1, 2) # <<"5", "5">>
                    IN  /\ com55  => Tail(ret) = <<"5", "5">> \o d
                        /\ ~com55 => Tail(ret) = d
                 /\ formatar_telefone_telegram(ret) = ret
            /\ chamada.arg = telExemplo =>
                 ret = <<"+","5","5","1","1","9","9","9","9","9","8","8","8","8">>

\* "(11) 99999-8888" has been formatted
C14_Witness ==
    /\ chamada.fn = "_formatar_telefone_telegram"
    /\ chamada.arg = telExemplo
    /\ Len(chamada.ret) = 14
    /\ SubSeq(chamada.ret, 1, 3) = <<"+", "5", "5">>

\* C15: _select_channel_for_lead returns 'email' for every lead without a
\* phone (empty or absent), whatever random.choice yields and also when the
\* e-mail is missing too; for a lead with a phone it returns 'whatsapp' or
\* 'telegram', never 'email'.
C15_ChannelByPhone ==
    chamada.fn = "_select_channel_for_lead" =>
        LET telefone == chamada.arg.lead.telefone
        IN  /\ telefone \in {NULL, ""} => chamada.ret = "email"
            /\ telefone \notin {NULL, ""} =>
                  /\ chamada.ret \in {"whatsapp", "telegram"}
                  /\ chamada.ret = chamada.arg.rnd

\* a lead with neither phone nor e-mail was routed while random.choice
\* would have yielded 'telegram'
C15_Witness ==
    /\ chamada.fn = "_select_channel_for_lead"
    /\ chamada.arg.lead.telefone = "" /\ chamada.arg.lead.email = NULL
    /\ chamada.arg.rnd = "telegram"
    /\ chamada.ret = "email"

\* the lower-cased tags contain one of the keywords
HasKeyword(tags, kws) == \E kw \in kws : Contains(Lower(tags), kw)

\* C16: _select_product_for_lead, matching case-insensitively by substring
\* on the interest tags, returns produto1 for a marketing/sales keyword,
\* produto2 for an investment/money keyword without a marketing/sales one,
\* produto1 or produto2 for an entrepreneurship keyword alone, and no
\* product otherwise, empty tags included; "marketing digital" gives
\* produto1, "investimentos" produto2, "VENDAS" produto1.
C16_ProductByTags ==
    chamada.fn = "_select_product_for_lead" =>
        LET tags == chamada.arg.lead.interesses
            mk   == HasKeyword(tags, {kwMarketing, kwVendas})
            inv  == HasKeyword(tags, {kwInvestimento, kwDinheiro})
            emp  == HasKeyword(tags, {kwEmpreendedor, kwNegocio})
        IN  /\ mk => chamada.ret = "produto1"
            /\ (inv /\ ~mk) => chamada.ret = "produto2"
            /\ (emp /\ ~mk /\ ~inv) =>
                  chamada.ret \in Produtos /\ chamada.ret = chamada.arg.rnd
            /\ (~mk /\ ~inv /\ ~emp) => chamada.ret = NoProduct
            /\ tags = <<>> => chamada.ret = NoProduct
            /\ tags \in {tagMarketingDigital, tagVENDAS} => chamada.ret = "produto1"
            /\ tags = tagInvestimentos => chamada.ret = "produto2"
            /\ tags = tagNEGOCIO => chamada.ret = chamada.arg.rnd

\* tags with a money and a sales keyword, in capitals, gave produto1 while
\* random.choice would have yielded produto2
C16_Witness ==
    /\ chamada.fn = "_select_product_for_lead"
    /\ chamada.arg.lead.interesses = tagDinheiroEVendas
    /\ chamada.arg.rnd = "produto2"
    /\ chamada.ret = "produto1"

\* a sale event that lacks a key the loop reads
Malformed(sale) == ~(SaleKeys \subseteq sale.chaves)

\* C17: a malformed sale event in a platform's response does not stop the
\* reconciliation: every well-formed event whose buyer e-mail is that of a
\* stored lead, in the same response or in another platform's, still gets
\* a conversion record and its lead becomes 'convertido'.
C17_BadSaleIsolated ==
    [][ ( /\ IsCheckStep
          /\ \E p \in DOMAIN vendas : \E k \in 1..Len(vendas[p]) :
                Malformed(vendas[p][k]) )
        => \A p \in DOMAIN vendas : \A k \in 1..Len(vendas[p]) :
              LET id == find_lead_by_email(leads, vendas[p][k].email)
              IN  (~Malformed(vendas[p][k]) /\ id # 0) =>
                     /\ \E c \in NewConvs : conversoes'[c].lead_id = id
                     /\ leads'[id].status = "convertido" ]_vars

\* C18: whenever AutonomousSalesAgent.run has ended, by the interrupt or by
\* an exception of a scheduled job, every resource acquired at construction
\* has been released: the browser driver and the four database connections.
C18_ResourcesReleased == ~running => abertos = {}

\* the 'enviado' records and the conversion records of the day d
SentOn(d) ==
    { i \in 1..Len(mensagens) :
        mensagens[i].status = "enviado" /\ mensagens[i].data_envio \div 24 = d }
ConvertedOn(d) ==
    { i \in 1..Len(conversoes) : conversoes[i].data_conversao \div 24 = d }

\* C19: when the report job is due, _get_conversion_rate returns 0.0
\* without error if no record of today is 'enviado', whatever the number of
\* today's conversions, and conversions / messages sent * 100 otherwise.
C19_ConversionRate ==
    Due("generate_report") =>
        LET rate == get_conversion_rate(mensagens, conversoes, Stamp(dia, slot))
            sent == Cardinality(SentOn(dia))
            conv == Cardinality(ConvertedOn(dia))
        IN  /\ rate.den # 0
            /\ sent = 0 => rate.num = 0
            /\ sent > 0 => rate.num * sent = conv * 100 * rate.den

\* the report is due on a day with conversions and no message sent
C19_Witness ==
    /\ Due("generate_report")
    /\ SentOn(dia) = {}
    /\ ConvertedOn(dia) # {}
    /\ get_conversion_rate(mensagens, conversoes, Stamp(dia, slot)) = Fraction(0, 1)

\* the step is a send_messages job
IsSendStep == running /\ Agenda[slot] = "send_messages" /\ slot' # slot

\* C20: in a send_messages run that ends below the cap, every fetched lead
\* with an eligible product, a name and interest tags gets exactly one
\* message record, with a non-empty text, whichever of the channels email,
\* whatsapp and telegram was selected for it.
C20_EveryChannelDelivers ==
    [][ (IsSendStep /\ sent_today' < max_messages_per_day) =>
          LET ids == NextFetch(leads, sent_today)
          IN  \A k \in 1..Len(ids) :
                LET lead == leads[ids[k]]
                    recs == { m \in NewMsgs : mensagens'[m].lead_id = ids[k] }
                IN  ( /\ select_product_for_lead(lead, "produto1") # NoProduct
                      /\ FirstWord(lead.nome) # <<>>
                      /\ lead.interesses # <<>> )
                    => /\ Cardinality(recs) = 1
                       /\ \A m \in recs : mensagens'[m].conteudo # <<>> ]_vars

\* C21: when get_updates() holds a contact whose phone is the formatted
\* number and no id is stored yet, the first _send_telegram sends directly
\* and the id is kept on the lead; every later _send_telegram for the phone
\* sends directly again, without calling get_updates() and without an
\* invitation.
C21_ChatHandleLearned ==
    ( /\ IsTelegramCall
      /\ SelectSeq(chamada.arg.telefone, IsDigit) # <<>>
      /\ chamada.arg.q0.stored = NoChat
      /\ chamada.arg.q0.updates # NoChat )
    => /\ chamada.ret.calls = <<"lookup", "telegram">>
       /\ chamada.ret.stored = chamada.arg.q0.updates
       /\ chamada.arg.n = 2 => ~chamada.ret.scanned

\* the interest tags match no product keyword
NoKeyword(l) ==
    ~HasKeyword(l.interesses, {kwMarketing, kwVendas, kwInvestimento, kwDinheiro,
                               kwEmpreendedor, kwNegocio})

\* the name is not empty and holds only blanks
BlankName(l) == l.nome # <<>> /\ \A k \in 1..Len(l.nome) : l.nome[k] = " "

\* C22: a lead that send_messages skips, because no product matches its
\* tags or because no text can be composed for it, gets no message record;
\* a lead that gets no message record in a send_messages run keeps its
\* row (status, last contact, attempts), and sent_today moves only by the
\* records with outcome 'enviado'.
C22_SkippedUntouched ==
    [][ IsSendStep =>
          /\ Len(leads') = Len(leads)
          /\ \A i \in 1..Len(leads) :
                LET recs == { m \in NewMsgs : mensagens'[m].lead_id = i }
                IN  /\ (NoKeyword(leads[i]) \/ BlankName(leads[i])) => recs = {}
                    /\ recs = {} => leads'[i] = leads[i]
          /\ sent_today' - sent_today =
                Cardinality({ m \in NewMsgs : mensagens'[m].status = "enviado" }) ]_vars

\* a send_messages run has delivered to a younger lead while an older
\* lead, fetched before it, matches no product and is as it was collected
C22_Witness ==
    \E i, j \in 1..Len(leads) :
        /\ i < j
        /\ NoKeyword(leads[i])
        /\ leads[i].status = "novo" /\ leads[i].tentativas = 0
        /\ \A m \in 1..Len(mensagens) : mensagens[m].lead_id # i
        /\ \E m \in 1..Len(mensagens) :
              mensagens[m].lead_id = j /\ mensagens[m].status = "enviado"

\* the number of message records of msgs, of either outcome, for the lead id
RECURSIVE CountAttempts(_, _)
CountAttempts(msgs, id) ==
    IF msgs = <<>> THEN 0
    ELSE (IF Head(msgs).lead_id = id THEN 1 ELSE 0) + CountAttempts(Tail(msgs), id)

\* C23: over any number of send_messages runs, no lead has more than 3
\* message records, counting 'enviado' and 'falha' alike, also when the
\* transport refuses every attempt.
C23_AttemptsBounded ==
    \A i \in 1..Len(leads) : CountAttempts(mensagens, i) <= AttemptCeiling

\* the conversion records of the day d for the product p
ConvertedOnOf(d, p) == { i \in ConvertedOn(d) : conversoes[i].produto = p }

\* C24: when the report job is due, every figure of the report is computed
\* from the records of today only: the count of conversions, the sum of
\* commissions, and the ranking of _get_top_products, whose entries carry
\* today's sales and today's summed commission of their product, in
\* descending order of that sum, at most 3 of them.
C24_ReportOfToday ==
    Due("generate_report") =>
        LET t == Stamp(dia, slot)
        IN  /\ get_conversions(conversoes, t) = Cardinality(ConvertedOn(dia))
            /\ get_total_revenue(conversoes, t) = SumComissao(conversoes, ConvertedOn(dia))
            /\ get_messages_sent(mensagens, t) = Cardinality(SentOn(dia))
            /\ \A top \in get_top_products(conversoes) :
                  /\ Len(top) <= 3
                  /\ \A k \in 1..Len(top) :
                        /\ ConvertedOnOf(dia, top[k].produto) # {}
                        /\ top[k].vendas = Cardinality(ConvertedOnOf(dia, top[k].produto))
                        /\ top[k].receita =
                             SumComissao(conversoes, ConvertedOnOf(dia, top[k].produto))
                        /\ k > 1 => top[k - 1].receita >= top[k].receita

\* the conversion records of convs that reference the lead id
ConvsOf(convs, id) == { c \in 1..Len(convs) : convs[c].lead_id = id }

\* the sale events of all platforms whose buyer is the lead id
SalesOf(id) ==
    { <<p, k>> \in (DOMAIN vendas) \X (1..MaxVendas) :
        k <= Len(vendas[p]) /\ find_lead_by_email(leads, vendas[p][k].email) = id }

\* C25: a run of check_conversions over well-formed responses appends, for
\* every lead, one conversion record per sale event of that lead in the
\* responses, whether or not the lead already has conversion records from
\* an earlier run over the same events; the records it finds are kept as
\* they are, and the lead of a matched event is 'convertido' afterwards.
\* Two runs over the same matched event so leave two records.
C25_NoDedupOfConversions ==
    [][ ( /\ IsCheckStep
          /\ \A p \in DOMAIN vendas : \A k \in 1..Len(vendas[p]) :
                ~Malformed(vendas[p][k]) )
        => /\ Len(conversoes') >= Len(conversoes)
           /\ SubSeq(conversoes', 1, Len(conversoes)) = conversoes
           /\ \A id \in 1..Len(leads) :
                 /\ Cardinality(ConvsOf(conversoes', id)) =
                      Cardinality(ConvsOf(conversoes, id)) + Cardinality(SalesOf(id))
                 /\ SalesOf(id) # {} => leads'[id].status = "convertido" ]_vars

\* in the record reg of run(), every start but the first follows the end of
\* the stage before it, and every end follows the start of its own stage
OneAtATime(reg) ==
    \A k \in 1..Len(reg) :
        IF reg[k][1] = "inicio"
        THEN k > 1 => reg[k - 1][1] = "fim"
        ELSE k > 1 /\ reg[k - 1][1] = "inicio" /\ reg[k - 1][2] = reg[k][2]

\* in the record reg, the stages that start on one day start in the order
\* of Agenda: collect, dispatch, dispatch, reconcile, aggregate
InAgendaOrder(reg) ==
    \A a, b \in 1..Len(reg) :
        (a < b /\ reg[a][1] = "inicio" /\ reg[b][1] = "inicio" /\ reg[a][3] = reg[b][3])
        => reg[a][2] < reg[b][2]

\* C26: inside run() the stages never overlap and run in the order collect,
\* dispatch, reconcile, aggregate within each day: a stage starts only when
\* no stage is in progress and no job was due before it, so the
\* reconciliation of a day starts after that day's dispatches have ended
\* and the aggregation after the reconciliation has ended, however long
\* the stages take.
C26_StagesInOrder ==
    [][ /\ OneAtATime(agendador'.registro)
        /\ InAgendaOrder(agendador'.registro)
        /\ (agendador'.executando # 0 /\ agendador'.executando # agendador.executando)
           => /\ agendador.executando = 0
              /\ \A k \in 1..Len(Agenda) :
                    agendador.next_run[k] >= agendador.next_run[agendador'.executando]
        /\ \A b \in 1..Len(agendador'.registro) :
              LET e == agendador'.registro[b]
              IN  (e[1] = "inicio" /\ Agenda[e[2]] \in {"check_conversions", "generate_report"})
                  => \A a \in 1..Len(agendador'.registro) :
                       LET f == agendador'.registro[a]
                       IN  (f[1] = "inicio" /\ f[3] = e[3] /\ Hora[f[2]] < Hora[e[2]])
                           => a + 1 < b /\ agendador'.registro[a + 1] = <<"fim", f[2], f[3]>>
      ]_vars

\* three stages have overrun, so that the reconciliation and the
\* aggregation were due together: the reconciliation is in progress and
\* the aggregation waits
C26_Witness ==
    /\ running
    /\ agendador.executando # 0
    /\ Agenda[agendador.executando] = "check_conversions"
    /\ agendador.pendentes # <<>>
    /\ Len(agendador.registro) >= 7

\* the lead at position i is stored, a product matches its tags and a text
\* can be composed for it
Sendable(i) ==
    /\ i <= Len(leads)
    /\ ~NoKeyword(leads[i])
    /\ ~BlankName(leads[i])

\* C27: with transports that always accept, sent_today reset to 0 before
\* each cycle and send_messages invoked again and again, every stored lead
\* with an eligible product and composable fields eventually has a message
\* record with outcome 'enviado', however many older leads without an
\* eligible product come before it.
C27_NoStarvation ==
    \A i \in 1..MaxFila : Sendable(i) ~> (CountEnviado(mensagens, i) >= 1)

====
